---- MODULE Spec2Model ----
(***************************************************************************)
(* Durable Object namespace reconciliation of wrangler                     *)
(* (src/deploy/durable_objects.rs): DurableObjectsTarget::pre_upload       *)
(* (refresh, cycle-breaking, binding resolution) and ::deploy (finalize),  *)
(* run against a remote control plane whose calls may succeed or fail.     *)
(*                                                                         *)
(* Option<T> is modelled as a sequence of length <= 1: None is <<>> and    *)
(* Some(x) is <<x>>.                                                       *)
(***************************************************************************)
EXTENDS Integers, Sequences, FiniteSets, TLC

VARIABLES
    implements,       \* self.durable_objects.implements (flattened)
    uses,             \* self.durable_objects.uses (flattened), as configured
    used_durable_object_namespaces, \* target.used_durable_object_namespaces
    existing_namespaces, \* the RefCell<HashMap<String, ApiDurableObjectNSResponse>>
    borrows,          \* live shared borrows (Ref) of the RefCell
    remote,           \* the control plane's namespaces, in listing order
    listed,           \* the map the last successful refresh stored
    to_create,        \* rest of new_self_referential_namespace_names
    new_namespaces,   \* rest of deploy's new_namespaces iterator
    update_namespaces, \* rest of deploy's update_namespaces iterator
    updated_namespaces, \* deploy's local vec of touched names
    result,           \* Some(list) once deploy returned Ok(list)
    err,              \* None, or Some of the error a phase returned
    calls,            \* every remote call issued so far, in order
    deploys,          \* number of deploy invocations started
    runs,             \* number of pre_upload invocations started
    pc                \* position of the caller in the publish sequence

vars == <<implements, uses, used_durable_object_namespaces, existing_namespaces,
          borrows, remote, listed, to_create, new_namespaces, update_namespaces,
          updated_namespaces, result, err, calls, deploys, runs, pc>>

\* ------------------------------------------------------------------ bounds
MaxImplements == 2
MaxUses == 2
MaxDeploys == 2
MaxRuns == 2
\* sizes of the configurations followed over several runs
MaxRunImplements == 1
MaxRunUses == 1

\* ------------------------------------------------------------ value spaces
None == <<>>
Some(x) == <<x>>

script_name == "worker"
Names == {"Counter", "Other"}
Classes == {"Counter", "Widget"}
PresetId == "preset"

SeqsUpTo(S, n) == UNION {[1..k -> S] : k \in 0..n}

\* an implemented namespace of the configuration
ImplementedNamespace == [namespace_name : Names, class_name : Classes]

\* a used namespace of the configuration / a binding of the target: bound by
\* name, bound by name with the id already given, or declaring neither
UsedBinding ==
    {[namespace_name |-> Some(n), namespace_id |-> None] : n \in Names}
        \cup {[namespace_name |-> Some("Counter"), namespace_id |-> Some(PresetId)],
              [namespace_name |-> None, namespace_id |-> None]}

\* what the control plane may hold for one name before the run:
\* nothing, a placeholder, this script's namespace, another script's namespace
RemoteKinds == {"absent", "placeholder", "current", "stale"}
RemoteKindsOf(n) == IF n = "Counter" THEN RemoteKinds ELSE {"absent", "stale"}

NameOrder == <<"Counter", "Other">>

RECURSIVE InitialRemote(_, _, _)
InitialRemote(kind, i, acc) ==
    IF i > Len(NameOrder) THEN acc
    ELSE LET n == NameOrder[i]
             id == ToString(Len(acc) + 1)
             rec == [name |-> n, id |-> id,
                     script |-> IF kind[n] = "placeholder" THEN None
                                ELSE IF kind[n] = "current" THEN Some(script_name)
                                ELSE Some("old"),
                     class |-> IF kind[n] = "placeholder" THEN None
                               ELSE Some("Counter")]
         IN InitialRemote(kind, i + 1,
                          IF kind[n] = "absent" THEN acc ELSE Append(acc, rec))

\* ------------------------------------------------------- remote calls log
Call(op, phase, name, id, impl, ok, ret) ==
    [op |-> op, phase |-> phase, name |-> name, id |-> id, impl |-> impl,
     ok |-> ok, ret |-> ret, deploy |-> deploys, run |-> runs]

\* ------------------------------------------------ the control plane
\* create: the control plane assigns a fresh id and stores the namespace
CreatedRecord(name, impl) ==
    [name |-> name, id |-> ToString(Len(remote) + 1),
     script |-> IF impl = None THEN None ELSE Some(impl[1].script),
     class |-> IF impl = None THEN None ELSE Some(impl[1].class)]

\* mutant: the request leaves the id out of the address and rewrites every
\* namespace of the account
RemoteAfterUpdateOfAll(id, body) ==
    [i \in DOMAIN remote |->
        [remote[i] EXCEPT !.script = Some(body.script), !.class = Some(body.class)]]

\* update: full replace of the script+class association of one id
RemoteAfterUpdate(id, body) ==
    [i \in DOMAIN remote |->
        IF remote[i].id = id
        THEN [remote[i] EXCEPT !.script = Some(body.script), !.class = Some(body.class)]
        ELSE remote[i]]

\* ------------------------------------------------ list_namespaces_by_name_to_id
\* map.insert(namespace.name.clone(), namespace) for each record in listing
\* order: a later record of the same name overwrites an earlier one
LastIndexOf(rem, n) ==
    CHOOSE i \in DOMAIN rem :
        rem[i].name = n /\ \A j \in DOMAIN rem : rem[j].name = n => j <= i

list_namespaces_by_name_to_id(rem) ==
    [n \in {rem[i].name : i \in DOMAIN rem} |-> rem[LastIndexOf(rem, n)]]

\* HashMap::insert(key, value)
MapInsert(map, key, value) ==
    [k \in DOMAIN map \cup {key} |-> IF k = key THEN value ELSE map[k]]

EmptyMap == [k \in {} |-> None]

\* --------------------------------------- init_self_referential_namespaces
\* lines 147-153: the names collected over `uses`
implemented_namespace_names ==
    {uses[i].namespace_name[1] :
        i \in {j \in DOMAIN uses : uses[j].namespace_name # None}}

\* line 156
existing_namespace_names == DOMAIN existing_namespaces

\* lines 158-173: the filter over `uses`, in declaration order
RECURSIVE SelfReferentialFrom(_)
SelfReferentialFrom(i) ==
    IF i > Len(uses) THEN <<>>
    ELSE LET ns == uses[i]
             keep == /\ ns.namespace_name # None
                     /\ ns.namespace_name[1] \in implemented_namespace_names
                     /\ ns.namespace_name[1] \notin existing_namespace_names
         IN (IF keep THEN <<ns.namespace_name[1]>> ELSE <<>>)
                \o SelfReferentialFrom(i + 1)

new_self_referential_namespace_names == SelfReferentialFrom(1)

\* ------------------------------------------------- hydrate_target_with_ns_ids
\* lines 197-202: self.existing_namespaces.borrow().get(name).cloned()
\*                    .and_then(|ns| Some(ns.id))
\* mutant: the record's name is taken where its id is meant
LookupIdTakesName(name) ==
    IF name \in DOMAIN existing_namespaces
    THEN Some(existing_namespaces[name].name)
    ELSE None

LookupId(name) ==
    IF name \in DOMAIN existing_namespaces
    THEN Some(existing_namespaces[name].id)
    ELSE None

\* mutant: the `namespace_id.is_none()` test of line 196 is missing
RECURSIVE HydrateFromOverwrites(_, _)
HydrateFromOverwrites(bs, i) ==
    IF i > Len(bs) THEN [target |-> bs, err |-> None]
    ELSE LET ns == bs[i] IN
         IF ns.namespace_name # None
         THEN LET name == ns.namespace_name[1]
                  bs2 == [bs EXCEPT ![i].namespace_id = LookupId(name)]
              IN IF bs2[i].namespace_id = None
                 THEN [target |-> bs2, err |-> Some(<<"NamespaceNotFound", name>>)]
                 ELSE HydrateFromOverwrites(bs2, i + 1)
         ELSE HydrateFromOverwrites(bs, i + 1)

\* lines 194-212: bindings are rewritten in place, up to the first failure
RECURSIVE HydrateFrom(_, _)
HydrateFrom(bs, i) ==
    IF i > Len(bs) THEN [target |-> bs, err |-> None]
    ELSE LET ns == bs[i] IN
         IF ns.namespace_name # None /\ ns.namespace_id = None
         THEN LET name == ns.namespace_name[1]
                  bs2 == [bs EXCEPT ![i].namespace_id = LookupId(name)]
              IN IF bs2[i].namespace_id = None
                 THEN [target |-> bs2, err |-> Some(<<"NamespaceNotFound", name>>)]
                 ELSE HydrateFrom(bs2, i + 1)
         ELSE HydrateFrom(bs, i + 1)

\* ------------------------------------------------------------------ deploy
\* lines 72-83
IsNew(ns) == ~(ns.namespace_name \in DOMAIN existing_namespaces)

\* mutant: `&&` where the code has `||`
NeedsUpdateBothDiffer(ns) ==
    /\ ns.namespace_name \in DOMAIN existing_namespaces
    /\ LET current == existing_namespaces[ns.namespace_name]
       IN /\ current.script # Some(script_name)
          /\ current.class # Some(ns.class_name)

\* mutant: every known namespace is updated, matching or not
NeedsUpdateWhenKnown(ns) == ns.namespace_name \in DOMAIN existing_namespaces

\* lines 91-98
NeedsUpdate(ns) ==
    /\ ns.namespace_name \in DOMAIN existing_namespaces
    /\ LET current == existing_namespaces[ns.namespace_name]
       IN \/ current.script # Some(script_name)
          \/ current.class # Some(ns.class_name)

RECURSIVE NewNamespacesFrom(_)
NewNamespacesFrom(i) ==
    IF i > Len(implements) THEN <<>>
    ELSE (IF IsNew(implements[i]) THEN <<implements[i]>> ELSE <<>>)
            \o NewNamespacesFrom(i + 1)

RECURSIVE UpdateNamespacesFrom(_)
UpdateNamespacesFrom(i) ==
    IF i > Len(implements) THEN <<>>
    ELSE (IF NeedsUpdate(implements[i])
          THEN <<[id |-> existing_namespaces[implements[i].namespace_name].id,
                  ns |-> implements[i]]>>
          ELSE <<>>)
            \o UpdateNamespacesFrom(i + 1)

\* ------------------------------------------------------------------- Init
\* DurableObjectsTarget::new: an empty registry; the target's bindings are the
\* configured `uses`; the control plane holds what earlier publishes left.
Init ==
    /\ implements \in SeqsUpTo(ImplementedNamespace, MaxImplements)
    /\ uses \in SeqsUpTo(UsedBinding, MaxUses)
    /\ used_durable_object_namespaces = uses
    /\ existing_namespaces = EmptyMap
    /\ borrows = 0
    /\ \E kind \in [Names -> RemoteKinds] :
            /\ \A n \in Names : kind[n] \in RemoteKindsOf(n)
            /\ remote = InitialRemote(kind, 1, <<>>)
    /\ listed = EmptyMap
    /\ to_create = <<>>
    /\ new_namespaces = <<>>
    /\ update_namespaces = <<>>
    /\ updated_namespaces = <<>>
    /\ result = None
    /\ err = None
    /\ calls = <<>>
    /\ deploys = 0
    /\ runs = 1
    /\ pc = "pre_upload"

\* ---------------------------------------------------------------- actions
\* mutant: the error of the listing is dropped (no `?`), pre_upload goes on
GetExistingNamespacesIgnoresError ==
    /\ pc = "pre_upload"
    /\ \E ok \in BOOLEAN :
        /\ calls' = Append(calls, Call("list", "pre_upload", "", "", None, ok, ""))
        /\ existing_namespaces' =
               IF ok THEN list_namespaces_by_name_to_id(remote) ELSE existing_namespaces
        /\ listed' = IF ok THEN list_namespaces_by_name_to_id(remote) ELSE listed
        /\ pc' = "init"
        /\ err' = err
    /\ UNCHANGED <<runs, implements, uses, used_durable_object_namespaces, borrows,
                   remote, to_create, new_namespaces, update_namespaces,
                   updated_namespaces, result, deploys>>

\* mutant: the listed records are merged into the registry, entries already
\* there are kept (entry().or_insert instead of replace)
GetExistingNamespacesMerges ==
    /\ pc = "pre_upload"
    /\ \E ok \in BOOLEAN :
        /\ calls' = Append(calls, Call("list", "pre_upload", "", "", None, ok, ""))
        /\ IF ok
           THEN /\ existing_namespaces' =
                     [k \in DOMAIN existing_namespaces
                              \cup DOMAIN list_namespaces_by_name_to_id(remote) |->
                         IF k \in DOMAIN existing_namespaces
                         THEN existing_namespaces[k]
                         ELSE list_namespaces_by_name_to_id(remote)[k]]
                /\ listed' = list_namespaces_by_name_to_id(remote)
                /\ pc' = "init"
                /\ err' = err
           ELSE /\ err' = Some(<<"RemoteError", "list">>)
                /\ pc' = "error"
                /\ UNCHANGED <<existing_namespaces, listed>>
    /\ UNCHANGED <<runs, implements, uses, used_durable_object_namespaces, borrows,
                   remote, to_create, new_namespaces, update_namespaces,
                   updated_namespaces, result, deploys>>

\* get_existing_namespaces (lines 137-143), the first step of pre_upload
GetExistingNamespaces ==
    /\ pc = "pre_upload"
    /\ \E ok \in BOOLEAN :
        /\ calls' = Append(calls, Call("list", "pre_upload", "", "", None, ok, ""))
        /\ IF ok
           THEN /\ existing_namespaces' = list_namespaces_by_name_to_id(remote)
                /\ listed' = list_namespaces_by_name_to_id(remote)
                /\ pc' = "init"
                /\ err' = err
           ELSE /\ err' = Some(<<"RemoteError", "list">>)
                /\ pc' = "error"
                /\ UNCHANGED <<existing_namespaces, listed>>
    /\ UNCHANGED <<runs, implements, uses, used_durable_object_namespaces, borrows, remote,
                   to_create, new_namespaces, update_namespaces, updated_namespaces,
                   result, deploys>>

\* init_self_referential_namespaces, lines 146-173: takes the shared borrow
\* (held to the end of the function) and builds the iterator
InitSelfReferentialNamespaces ==
    /\ pc = "init"
    /\ borrows' = borrows + 1
    /\ to_create' = new_self_referential_namespace_names
    /\ pc' = "creating"
    /\ UNCHANGED <<runs, implements, uses, used_durable_object_namespaces,
                   existing_namespaces, remote, listed, new_namespaces,
                   update_namespaces, updated_namespaces, result, err, calls, deploys>>

\* one turn of the loop of lines 175-188: create_ns with no implementation, then
\* existing_namespaces.borrow_mut().insert(new_ns.id.clone(), new_ns).
\* borrow_mut panics while the shared borrow of line 155 is alive.
CreatePlaceholder ==
    /\ pc = "creating"
    /\ to_create # <<>>
    /\ LET name == Head(to_create)
           new_ns == CreatedRecord(name, None)
       IN \E ok \in BOOLEAN :
            /\ calls' = Append(calls, Call("create", "pre_upload", name, "", None, ok,
                                           IF ok THEN new_ns.id ELSE ""))
            /\ IF ok
               THEN /\ remote' = Append(remote, new_ns)
                    /\ err' = err
                    /\ IF borrows > 0
                       THEN /\ pc' = "panicked"
                            /\ UNCHANGED <<existing_namespaces, to_create, borrows>>
                       ELSE /\ existing_namespaces' =
                                   MapInsert(existing_namespaces, new_ns.id, new_ns)
                            /\ to_create' = Tail(to_create)
                            /\ UNCHANGED <<pc, borrows>>
               ELSE /\ err' = Some(<<"RemoteError", name>>)
                    /\ pc' = "error"
                    /\ borrows' = borrows - 1
                    /\ UNCHANGED <<remote, existing_namespaces, to_create>>
    /\ UNCHANGED <<runs, implements, uses, used_durable_object_namespaces, listed,
                   new_namespaces, update_namespaces, updated_namespaces, result,
                   deploys>>

\* line 190: the loop is over, the function returns Ok and drops its borrow
InitSelfReferentialReturn ==
    /\ pc = "creating"
    /\ to_create = <<>>
    /\ borrows' = borrows - 1
    /\ pc' = "hydrate"
    /\ UNCHANGED <<runs, implements, uses, used_durable_object_namespaces,
                   existing_namespaces, remote, listed, to_create, new_namespaces,
                   update_namespaces, updated_namespaces, result, err, calls, deploys>>

\* hydrate_target_with_ns_ids (lines 193-213) and the return of pre_upload
HydrateTargetWithNsIds ==
    /\ pc = "hydrate"
    /\ LET h == HydrateFrom(used_durable_object_namespaces, 1)
       IN /\ used_durable_object_namespaces' = h.target
          /\ err' = h.err
          /\ pc' = IF h.err = None THEN "upload" ELSE "error"
    /\ UNCHANGED <<runs, implements, uses, existing_namespaces, borrows, remote, listed,
                   to_create, new_namespaces, update_namespaces, updated_namespaces,
                   result, calls, deploys>>

\* the script upload between pre_upload and deploy
Upload ==
    /\ pc = "upload"
    /\ pc' = "deploy"
    /\ UNCHANGED <<runs, implements, uses, used_durable_object_namespaces,
                   existing_namespaces, borrows, remote, listed, to_create,
                   new_namespaces, update_namespaces, updated_namespaces, result,
                   err, calls, deploys>>

\* deploy, lines 70-104: the shared borrow, the two filters, the empty vec
DeployStart ==
    /\ pc = "deploy"
    /\ borrows' = borrows + 1
    /\ new_namespaces' = NewNamespacesFrom(1)
    /\ update_namespaces' = UpdateNamespacesFrom(1)
    /\ updated_namespaces' = <<>>
    /\ result' = None
    /\ deploys' = deploys + 1
    /\ pc' = "deploying"
    /\ UNCHANGED <<runs, implements, uses, used_durable_object_namespaces,
                   existing_namespaces, remote, listed, to_create, err, calls>>

\* one turn of the loop of lines 106-119
DeployCreate ==
    /\ pc = "deploying"
    /\ new_namespaces # <<>>
    /\ LET ns == Head(new_namespaces)
           impl == Some([script |-> script_name, class |-> ns.class_name])
           new_ns == CreatedRecord(ns.namespace_name, impl)
       IN \E ok \in BOOLEAN :
            /\ updated_namespaces' = Append(updated_namespaces, ns.namespace_name)
            /\ calls' = Append(calls, Call("create", "deploy", ns.namespace_name, "",
                                           impl, ok, IF ok THEN new_ns.id ELSE ""))
            /\ IF ok
               THEN /\ remote' = Append(remote, new_ns)
                    /\ new_namespaces' = Tail(new_namespaces)
                    /\ UNCHANGED <<err, pc, borrows>>
               ELSE /\ err' = Some(<<"RemoteError", ns.namespace_name>>)
                    /\ pc' = "error"
                    /\ borrows' = borrows - 1
                    /\ UNCHANGED <<remote, new_namespaces>>
    /\ UNCHANGED <<runs, implements, uses, used_durable_object_namespaces,
                   existing_namespaces, listed, to_create, update_namespaces,
                   result, deploys>>

\* mutant: the result of update_ns is dropped (no `?`), the loop goes on
DeployUpdateIgnoresError ==
    /\ pc = "deploying"
    /\ new_namespaces = <<>>
    /\ update_namespaces # <<>>
    /\ LET id == Head(update_namespaces).id
           ns == Head(update_namespaces).ns
           body == [script |-> script_name, class |-> ns.class_name]
       IN \E ok \in BOOLEAN :
            /\ updated_namespaces' = Append(updated_namespaces, ns.namespace_name)
            /\ calls' = Append(calls, Call("update", "deploy", ns.namespace_name, id,
                                           Some(body), ok, ""))
            /\ remote' = IF ok THEN RemoteAfterUpdate(id, body) ELSE remote
            /\ update_namespaces' = Tail(update_namespaces)
            /\ UNCHANGED <<err, pc, borrows>>
    /\ UNCHANGED <<runs, implements, uses, used_durable_object_namespaces,
                   existing_namespaces, listed, to_create, new_namespaces,
                   result, deploys>>

\* one turn of the loop of lines 121-132
DeployUpdate ==
    /\ pc = "deploying"
    /\ new_namespaces = <<>>
    /\ update_namespaces # <<>>
    /\ LET id == Head(update_namespaces).id
           ns == Head(update_namespaces).ns
           body == [script |-> script_name, class |-> ns.class_name]
       IN \E ok \in BOOLEAN :
            /\ updated_namespaces' = Append(updated_namespaces, ns.namespace_name)
            /\ calls' = Append(calls, Call("update", "deploy", ns.namespace_name, id,
                                           Some(body), ok, ""))
            /\ IF ok
               THEN /\ remote' = RemoteAfterUpdate(id, body)
                    /\ update_namespaces' = Tail(update_namespaces)
                    /\ UNCHANGED <<err, pc, borrows>>
               ELSE /\ err' = Some(<<"RemoteError", ns.namespace_name>>)
                    /\ pc' = "error"
                    /\ borrows' = borrows - 1
                    /\ UNCHANGED <<remote, update_namespaces>>
    /\ UNCHANGED <<runs, implements, uses, used_durable_object_namespaces,
                   existing_namespaces, listed, to_create, new_namespaces,
                   result, deploys>>

\* mutant: deploy reports every implemented name, touched or not
DeployReturnsImplemented ==
    /\ pc = "deploying"
    /\ new_namespaces = <<>>
    /\ update_namespaces = <<>>
    /\ result' = Some([i \in DOMAIN implements |-> implements[i].namespace_name])
    /\ borrows' = borrows - 1
    /\ pc' = "deployed"
    /\ UNCHANGED <<runs, implements, uses, used_durable_object_namespaces,
                   existing_namespaces, remote, listed, to_create, new_namespaces,
                   update_namespaces, updated_namespaces, err, calls, deploys>>

\* line 134: Ok(updated_namespaces)
DeployReturn ==
    /\ pc = "deploying"
    /\ new_namespaces = <<>>
    /\ update_namespaces = <<>>
    /\ result' = Some(updated_namespaces)
    /\ borrows' = borrows - 1
    /\ pc' = "deployed"
    /\ UNCHANGED <<runs, implements, uses, used_durable_object_namespaces,
                   existing_namespaces, remote, listed, to_create, new_namespaces,
                   update_namespaces, updated_namespaces, err, calls, deploys>>

\* deploy is public: the same target is deployed again, nothing else changed
DeployAgain ==
    /\ pc = "deployed"
    /\ deploys < MaxDeploys
    /\ pc' = "deploy"
    /\ UNCHANGED <<runs, implements, uses, used_durable_object_namespaces,
                   existing_namespaces, borrows, remote, listed, to_create,
                   new_namespaces, update_namespaces, updated_namespaces, result,
                   err, calls, deploys>>

Next ==
    \/ GetExistingNamespaces
    \/ InitSelfReferentialNamespaces
    \/ CreatePlaceholder
    \/ InitSelfReferentialReturn
    \/ HydrateTargetWithNsIds
    \/ Upload
    \/ DeployStart
    \/ DeployCreate
    \/ DeployUpdate
    \/ DeployReturn
    \/ DeployAgain

Spec == Init /\ [][Next]_vars

\* ------------------------------------------------------------ further runs
\* the operator publishes again: a new process builds a new target
\* (DurableObjectsTarget::new, an empty registry) from the same configuration;
\* the control plane keeps what the earlier runs left
NewRun ==
    /\ pc \in {"deployed", "error", "panicked"}
    /\ runs < MaxRuns
    /\ runs' = runs + 1
    /\ used_durable_object_namespaces' = uses
    /\ existing_namespaces' = EmptyMap
    /\ borrows' = 0
    /\ to_create' = <<>>
    /\ new_namespaces' = <<>>
    /\ update_namespaces' = <<>>
    /\ updated_namespaces' = <<>>
    /\ result' = None
    /\ err' = None
    /\ pc' = "pre_upload"
    /\ UNCHANGED <<implements, uses, remote, listed, calls, deploys>>

\* pre_upload is public: it is called again on the same target, which keeps
\* its registry and its bindings, after an earlier call or deploy returned
PreUploadAgain ==
    /\ pc \in {"deployed", "error"}
    /\ runs < MaxRuns
    /\ runs' = runs + 1
    /\ to_create' = <<>>
    /\ new_namespaces' = <<>>
    /\ update_namespaces' = <<>>
    /\ updated_namespaces' = <<>>
    /\ result' = None
    /\ err' = None
    /\ pc' = "pre_upload"
    /\ UNCHANGED <<implements, uses, used_durable_object_namespaces,
                   existing_namespaces, borrows, remote, listed, calls, deploys>>

NextRuns ==
    \/ Next
    \/ NewRun
    \/ PreUploadAgain

\* the first run of a sequence of runs: Init, over the smaller configurations
InitRuns ==
    /\ Init
    /\ Len(implements) <= MaxRunImplements
    /\ Len(uses) <= MaxRunUses

SpecRuns == InitRuns /\ [][NextRuns]_vars

\* ===================================================================== claims
ImplementedNames == {implements[i].namespace_name : i \in DOMAIN implements}

UsedNames ==
    {uses[i].namespace_name[1] :
        i \in {j \in DOMAIN uses : uses[j].namespace_name # None}}

NoRemoteFailure == \A k \in DOMAIN calls : calls[k].ok

\* pre_upload is over: it returned Ok, returned an error, or panicked
PreUploadOver == pc \notin {"pre_upload", "init", "creating", "hydrate"}

\* pre_upload returned Ok
PreUploadOk == pc \in {"upload", "deploy", "deploying", "deployed"}

\* the publish sequence is over
RunOver == pc \in {"deployed", "error", "panicked"}

\* the successful create calls of the Cycle-Breaker for name n
Placeholders(n) ==
    {k \in DOMAIN calls :
        /\ calls[k].op = "create" /\ calls[k].phase = "pre_upload"
        /\ calls[k].name = n /\ calls[k].impl = None /\ calls[k].ok}

\* the create calls the Cycle-Breaker issued for name n
PlaceholderCalls(n) ==
    {k \in DOMAIN calls :
        /\ calls[k].op = "create" /\ calls[k].phase = "pre_upload"
        /\ calls[k].name = n}

\* the calls of the deploy invocation d
DeployCalls(d) ==
    {k \in DOMAIN calls : calls[k].phase = "deploy" /\ calls[k].deploy = d}

\* names both implemented and used by the unit and absent from the listing
SelfReferentialAbsent == (UsedNames \cap ImplementedNames) \ DOMAIN listed

\* C1: once pre_upload is over with every remote call having succeeded, each
\* binding (without a preset id) whose name is implemented, used and absent
\* from the listed directory has an id, and that id is the one returned by
\* exactly one placeholder create call of this pre_upload.
C1_CycleBreakingNecessity ==
    (PreUploadOver /\ NoRemoteFailure) =>
        \A i \in DOMAIN uses :
            (/\ uses[i].namespace_name # None
             /\ uses[i].namespace_id = None
             /\ uses[i].namespace_name[1] \in SelfReferentialAbsent)
            => /\ used_durable_object_namespaces[i].namespace_id # None
               /\ Cardinality({k \in Placeholders(uses[i].namespace_name[1]) :
                     Some(calls[k].ret) =
                         used_durable_object_namespaces[i].namespace_id}) = 1

\* C2: from an empty directory with implemented = [Counter/Counter] and
\* used = [Counter], a run whose remote calls all succeed ends with deploy
\* returned, having issued list, one placeholder create for Counter in
\* pre_upload, and one update (no create) in deploy on the id the create
\* returned; the binding holds that id and deploy returns [Counter].
C2_EndToEnd ==
    (/\ implements = <<[namespace_name |-> "Counter", class_name |-> "Counter"]>>
     /\ uses = <<[namespace_name |-> Some("Counter"), namespace_id |-> None]>>
     /\ RunOver /\ NoRemoteFailure /\ deploys <= 1
     /\ DOMAIN listed = {})
    => /\ pc = "deployed"
       /\ Len(calls) = 3
       /\ calls[1].op = "list"
       /\ calls[2].op = "create" /\ calls[2].phase = "pre_upload"
       /\ calls[2].name = "Counter" /\ calls[2].impl = None
       /\ used_durable_object_namespaces[1].namespace_id = Some(calls[2].ret)
       /\ calls[3].op = "update" /\ calls[3].phase = "deploy"
       /\ calls[3].id = calls[2].ret
       /\ calls[3].impl = Some([script |-> script_name, class |-> "Counter"])
       /\ result = Some(<<"Counter">>)

\* C3: a name receives a placeholder create from the Cycle-Breaker if and only
\* if it is used, implemented and absent from the Registry after the refresh:
\* no create for any other name, and, once cycle-breaking is over with every
\* remote call having succeeded, a create for each such name.
C3_PlaceholderSet ==
    \A n \in Names :
        /\ PlaceholderCalls(n) # {} => n \in SelfReferentialAbsent
        /\ (/\ pc \notin {"pre_upload", "init", "creating"}
            /\ NoRemoteFailure
            /\ n \in SelfReferentialAbsent) => PlaceholderCalls(n) # {}

\* the names of bindings that cannot be resolved: declared by name, no preset
\* id, neither listed nor implemented
Unresolvable ==
    {uses[i].namespace_name[1] :
        i \in {j \in DOMAIN uses :
                 /\ uses[j].namespace_name # None
                 /\ uses[j].namespace_id = None
                 /\ uses[j].namespace_name[1] \notin DOMAIN listed
                 /\ uses[j].namespace_name[1] \notin ImplementedNames}}

\* C4: when some binding is unresolvable and the remote calls succeed,
\* pre_upload ends with the namespace-not-found error naming such a namespace,
\* and no deploy call is issued.
C4_FailsClosed ==
    (PreUploadOver /\ NoRemoteFailure /\ Unresolvable # {})
    => /\ pc = "error"
       /\ err # None
       /\ err[1][1] = "NamespaceNotFound"
       /\ err[1][2] \in Unresolvable
       /\ \A k \in DOMAIN calls : calls[k].phase # "deploy"

\* the bindings C5 is about: named, not implemented by the unit, in the listing
UsedNotImplementedListed(i) ==
    /\ uses[i].namespace_name # None
    /\ uses[i].namespace_name[1] \notin ImplementedNames
    /\ uses[i].namespace_name[1] \in DOMAIN listed

\* C5 as stated: for every such binding pre_upload issues no create call for
\* the name and, when it returns Ok, the binding holds the listed record's id.
C5_NoSpuriousCreationAnyBinding ==
    \A i \in DOMAIN uses :
        UsedNotImplementedListed(i) =>
            /\ PlaceholderCalls(uses[i].namespace_name[1]) = {}
            /\ PreUploadOk =>
                 used_durable_object_namespaces[i].namespace_id =
                     Some(listed[uses[i].namespace_name[1]].id)

\* C5 amended: the same, for the bindings whose id was not preset; a preset id
\* is left as it was.
C5_NoSpuriousCreation ==
    \A i \in DOMAIN uses :
        UsedNotImplementedListed(i) =>
            /\ PlaceholderCalls(uses[i].namespace_name[1]) = {}
            /\ PreUploadOk =>
                 used_durable_object_namespaces[i].namespace_id =
                     IF uses[i].namespace_id = None
                     THEN Some(listed[uses[i].namespace_name[1]].id)
                     ELSE uses[i].namespace_id

\* C5 witness: pre_upload returned Ok having resolved such a binding
C5_Witness ==
    /\ pc = "upload"
    /\ \E i \in DOMAIN uses :
        /\ UsedNotImplementedListed(i)
        /\ uses[i].namespace_id = None
        /\ used_durable_object_namespaces[i].namespace_id =
               Some(listed[uses[i].namespace_name[1]].id)

\* the names of the records the Registry holds
RegistryNames == {existing_namespaces[k].name : k \in DOMAIN existing_namespaces}

\* C6: deploy never issues a create call for a name the Registry holds or for
\* which this run created a placeholder; and a run that created a placeholder
\* for an implemented name and whose remote calls all succeeded finalizes it
\* by an update call on the placeholder's id.
C6_KeyInvariant ==
    /\ \A k \in DOMAIN calls :
        (calls[k].op = "create" /\ calls[k].phase = "deploy")
        => /\ calls[k].name \notin RegistryNames
           /\ Placeholders(calls[k].name) = {}
    /\ (RunOver /\ NoRemoteFailure) =>
        \A n \in ImplementedNames : \A p \in Placeholders(n) :
            \E k \in DOMAIN calls :
                /\ calls[k].op = "update" /\ calls[k].phase = "deploy"
                /\ calls[k].id = calls[p].ret

\* C7: a second deploy of the same unit, after the first returned Ok, issues
\* no create and no update call.
C7_FinalizeIdempotent ==
    \A k \in DOMAIN calls :
        calls[k].deploy >= 2 => calls[k].op \notin {"create", "update"}

\* number of implemented entries declaring name n with class c
Declared(n, c) ==
    Cardinality({i \in DOMAIN implements :
        implements[i] = [namespace_name |-> n, class_name |-> c]})

CreatesOf(d, n, c) ==
    {k \in DeployCalls(d) :
        /\ calls[k].op = "create" /\ calls[k].name = n
        /\ calls[k].impl = Some([script |-> script_name, class |-> c])}

UpdatesOf(d, id, c) ==
    {k \in DeployCalls(d) :
        /\ calls[k].op = "update" /\ calls[k].id = id
        /\ calls[k].impl = Some([script |-> script_name, class |-> c])}

CallsNamed(d, op, n) ==
    {k \in DeployCalls(d) : calls[k].op = op /\ calls[k].name = n}

\* the Registry record of n differs from the declaration (script_name, c)
Mismatched(n, c) ==
    \/ existing_namespaces[n].script # Some(script_name)
    \/ existing_namespaces[n].class # Some(c)

Matched(i) ==
    /\ implements[i].namespace_name \in DOMAIN existing_namespaces
    /\ ~Mismatched(implements[i].namespace_name, implements[i].class_name)

\* C9 as stated: for every implemented entry matching its Registry record,
\* deploy issues no remote call for the name and does not return the name.
C9_MatchedNoOpAnyEntry ==
    \A i \in DOMAIN implements :
        Matched(i) =>
            /\ \A k \in DOMAIN calls :
                calls[k].phase = "deploy" => calls[k].name # implements[i].namespace_name
            /\ pc = "deployed" =>
                \A j \in DOMAIN result[1] : result[1][j] # implements[i].namespace_name

\* C9 amended: the same, for a name all of whose implemented entries match the
\* Registry record (an entry declaring the name with another class is updated).
C9_MatchedNoOp ==
    \A n \in ImplementedNames :
        (\A i \in DOMAIN implements : implements[i].namespace_name = n => Matched(i))
        => /\ \A k \in DOMAIN calls : calls[k].phase = "deploy" => calls[k].name # n
           /\ pc = "deployed" => \A j \in DOMAIN result[1] : result[1][j] # n

\* C9 witness: a deploy returned Ok, touched another name and left a matched one
C9_Witness ==
    /\ pc = "deployed"
    /\ result # Some(<<>>)
    /\ \E n \in ImplementedNames :
        /\ \A i \in DOMAIN implements : implements[i].namespace_name = n => Matched(i)
        /\ \A j \in DOMAIN result[1] : result[1][j] # n

\* C10: when pre_upload has returned Ok every binding of the target has an id.
C10_UsedBindingInvariant ==
    PreUploadOk =>
        \A i \in DOMAIN used_durable_object_namespaces :
            used_durable_object_namespaces[i].namespace_id # None

\* C11: every key of the Registry is the name of the record stored under it,
\* and once the Cycle-Breaker has created a placeholder for a name, looking the
\* name up in the Registry gives the record that create call returned.
C11_RegistryKeyedByName ==
    /\ \A k \in DOMAIN existing_namespaces : existing_namespaces[k].name = k
    /\ \A n \in Names : \A p \in Placeholders(n) :
        (calls[p].run = runs) =>
            /\ n \in DOMAIN existing_namespaces
            /\ existing_namespaces[n].id = calls[p].ret
            /\ existing_namespaces[n].name = n

\* the successful update calls of deploy on id after call k
LaterUpdates(k) ==
    {j \in DOMAIN calls :
        /\ j > k /\ calls[j].op = "update" /\ calls[j].ok
        /\ calls[j].id = calls[k].id}

\* C12: a create or update call of deploy that fails is the last remote call
\* of the run and deploy has returned its error; what the earlier successful
\* calls of deploy did is still in the remote state: each created namespace is
\* there with the script and class it was created with, each updated id holds
\* the script and class of the last successful update.
C12_FinalizerAbort ==
    /\ \A k \in DOMAIN calls :
        (calls[k].phase = "deploy" /\ ~calls[k].ok)
        => /\ k = Len(calls)
           /\ pc = "error"
           /\ err = Some(<<"RemoteError", calls[k].name>>)
    /\ \A k \in DOMAIN calls :
        (calls[k].phase = "deploy" /\ calls[k].ok /\ calls[k].op = "create")
        => \E i \in DOMAIN remote :
              /\ remote[i].id = calls[k].ret
              /\ remote[i].name = calls[k].name
              /\ remote[i].script = Some(calls[k].impl[1].script)
              /\ remote[i].class = Some(calls[k].impl[1].class)
    /\ \A k \in DOMAIN calls :
        (/\ calls[k].phase = "deploy" /\ calls[k].ok /\ calls[k].op = "update"
         /\ LaterUpdates(k) = {})
        => /\ \E i \in DOMAIN remote : remote[i].id = calls[k].id
           /\ \A i \in DOMAIN remote :
                remote[i].id = calls[k].id =>
                    /\ remote[i].script = Some(calls[k].impl[1].script)
                    /\ remote[i].class = Some(calls[k].impl[1].class)

\* C12 witness: deploy failed on a call after an earlier call of it succeeded
C12_Witness ==
    /\ pc = "error"
    /\ Len(calls) >= 2
    /\ calls[Len(calls)].phase = "deploy" /\ ~calls[Len(calls)].ok
    /\ calls[Len(calls) - 1].phase = "deploy" /\ calls[Len(calls) - 1].ok

\* the calls of the pre_upload invocation r
RunCalls(r) == {k \in DOMAIN calls : calls[k].run = r}

LastCallOf(r) == CHOOSE k \in RunCalls(r) : \A j \in RunCalls(r) : j <= k

\* run r aborted: a remote call of it failed, or it panicked right after a
\* placeholder create
Aborted(r) ==
    LET k == LastCallOf(r)
    IN \/ ~calls[k].ok
       \/ calls[k].op = "create" /\ calls[k].phase = "pre_upload"

\* run r issued only successful calls and at most one deploy
CleanRun(r) ==
    /\ \A k \in RunCalls(r) : calls[k].ok
    /\ Cardinality({calls[k].deploy :
            k \in {j \in RunCalls(r) : calls[j].phase = "deploy"}}) <= 1

\* C14: a full run that follows an aborted run and whose remote calls all
\* succeed ends with deploy returned and every implemented namespace existing
\* remotely exactly once with script_name and its declared class, and creates
\* no placeholder for a name an earlier run created one for; the full run after
\* such a run issues no create and no update call.
C14_RerunConverges ==
    /\ (runs >= 2 /\ Aborted(runs - 1) /\ RunOver /\ CleanRun(runs))
       => /\ pc = "deployed"
          /\ \A i \in DOMAIN implements :
                /\ Cardinality({j \in DOMAIN remote :
                        remote[j].name = implements[i].namespace_name}) = 1
                /\ \A j \in DOMAIN remote :
                        remote[j].name = implements[i].namespace_name =>
                            /\ remote[j].script = Some(script_name)
                            /\ remote[j].class = Some(implements[i].class_name)
          /\ \A k \in RunCalls(runs) :
                (calls[k].op = "create" /\ calls[k].phase = "pre_upload")
                => \A p \in Placeholders(calls[k].name) : calls[p].run = runs
    /\ (runs >= 3 /\ Aborted(runs - 2) /\ CleanRun(runs - 1))
       => \A k \in RunCalls(runs) : calls[k].op \notin {"create", "update"}

\* C15: when deploy returns Ok, the list it returns is the names of the create
\* and update calls this deploy issued, one entry per call, in the order of
\* the calls.
C15_TouchedNames ==
    pc = "deployed" =>
        LET n == Cardinality(DeployCalls(deploys))
            first == Len(calls) - n
        IN /\ \A j \in 1..n :
                /\ (first + j) \in DeployCalls(deploys)
                /\ calls[first + j].op \in {"create", "update"}
           /\ result = Some([j \in 1..n |-> calls[first + j].name])

\* C15 witness: deploy returned two names, a created one before an updated one
C15_Witness ==
    /\ pc = "deployed"
    /\ Len(result[1]) = 2
    /\ calls[Len(calls) - 1].op = "create"
    /\ calls[Len(calls)].op = "update"
    /\ result[1] = <<calls[Len(calls) - 1].name, calls[Len(calls)].name>>
    /\ Len(implements) = 2

\* a step that gives the unit a registry of its own choosing: the refresh of
\* pre_upload, or the construction of a new target
RefreshOrNewTarget ==
    \/ pc = "pre_upload" /\ pc' = "init"
    \/ runs' # runs /\ existing_namespaces' = EmptyMap

\* C16: in every step of every sequence of runs, each remote namespace stays,
\* with its id and name; a script or class that is set stays set; a namespace
\* changes only by a successful update call on its id, to the script and class
\* of that call; and the Registry loses no key except by a refresh or with a
\* new target.
C16_ForwardOnly ==
    [][ /\ Len(remote') >= Len(remote)
        /\ \A i \in DOMAIN remote :
            /\ remote'[i].id = remote[i].id
            /\ remote'[i].name = remote[i].name
            /\ remote[i].script # None => remote'[i].script # None
            /\ remote[i].class # None => remote'[i].class # None
            /\ remote'[i] # remote[i] =>
                 /\ Len(calls') = Len(calls) + 1
                 /\ calls'[Len(calls')].op = "update"
                 /\ calls'[Len(calls')].ok
                 /\ calls'[Len(calls')].id = remote[i].id
                 /\ remote'[i].script = Some(calls'[Len(calls')].impl[1].script)
                 /\ remote'[i].class = Some(calls'[Len(calls')].impl[1].class)
        /\ ~RefreshOrNewTarget =>
             DOMAIN existing_namespaces \subseteq DOMAIN existing_namespaces'
      ]_vars

\* C16 witness: a namespace created as a placeholder in one run was finalized
\* by an update in a later run
C16_Witness ==
    \E p \in DOMAIN calls : \E k \in DOMAIN calls :
        /\ calls[p].op = "create" /\ calls[p].impl = None /\ calls[p].ok
        /\ calls[k].op = "update" /\ calls[k].ok
        /\ calls[k].id = calls[p].ret
        /\ calls[k].run > calls[p].run
        /\ \E i \in DOMAIN remote :
            remote[i].id = calls[p].ret /\ remote[i].script = Some(script_name)

\* the listing calls of run r
ListCalls(r) == {k \in RunCalls(r) : calls[k].op = "list"}

\* each pre_upload issues one listing call, and every other call of the run
\* comes after it and after it succeeded
OneListingFirst ==
    \A r \in 1..runs :
        /\ Cardinality(ListCalls(r)) <= 1
        /\ (r < runs \/ pc # "pre_upload") => Cardinality(ListCalls(r)) = 1
        /\ \A k \in RunCalls(r) :
            calls[k].op # "list" => \E l \in ListCalls(r) : l < k /\ calls[l].ok

\* a step issues a create call of the Cycle-Breaker
IssuesPlaceholderCreate ==
    /\ Len(calls') = Len(calls) + 1
    /\ calls'[Len(calls')].op = "create"
    /\ calls'[Len(calls')].phase = "pre_upload"

\* C17: each pre_upload issues exactly one listing call, before every create
\* call of the run; no binding changes before cycle-breaking is over and no
\* Cycle-Breaker create is issued once binding resolution has started; the
\* refresh changes nothing remotely and leaves the Registry holding exactly the
\* listed records, each under its name.
C17_PhaseOrder ==
    /\ []OneListingFirst
    /\ [][ /\ (pc \in {"pre_upload", "init", "creating"} /\ runs' = runs) =>
                used_durable_object_namespaces' = used_durable_object_namespaces
           /\ pc # "creating" => ~IssuesPlaceholderCreate
           /\ pc = "pre_upload" => remote' = remote
           /\ (pc = "pre_upload" /\ pc' = "init") =>
                /\ \A key \in DOMAIN existing_namespaces' :
                     /\ existing_namespaces'[key].name = key
                     /\ \E i \in DOMAIN remote : remote[i] = existing_namespaces'[key]
                /\ \A i \in DOMAIN remote :
                     remote[i].name \in DOMAIN existing_namespaces'
         ]_vars

\* C17 witness: a second pre_upload has refreshed the registry after the deploy
\* of the first run updated a namespace, and the registry holds the new record
C17_Witness ==
    /\ runs = 2
    /\ pc = "init"
    /\ \E k \in RunCalls(1) :
        /\ calls[k].op = "update" /\ calls[k].ok
        /\ calls[k].name \in DOMAIN existing_namespaces
        /\ existing_namespaces[calls[k].name].id = calls[k].id
        /\ existing_namespaces[calls[k].name].script = Some(script_name)
        /\ existing_namespaces[calls[k].name].class = Some(calls[k].impl[1].class)

\* C18: the Registry cell is never mutably borrowed while a shared borrow of
\* it is alive: no step of pre_upload or deploy ends in a borrow panic.
C18_NoBorrowPanic == pc # "panicked"

\* C19: within one run (pre_upload followed by one deploy) at most one create
\* call is issued for each namespace name.
C19_OneCreatePerName ==
    \A n \in Names :
        Cardinality({k \in RunCalls(runs) :
            /\ calls[k].op = "create"
            /\ calls[k].name = n
            /\ calls[k].deploy <= 1}) <= 1

\* C20: the step of hydrate_target_with_ns_ids issues no remote call and
\* leaves the Registry and the remote state alone; a binding whose id was set
\* keeps it; an id the step writes is the id of the Registry record stored
\* under the binding's declared name.
C20_ResolverFrame ==
    [][ pc = "hydrate" =>
          /\ calls' = calls
          /\ existing_namespaces' = existing_namespaces
          /\ remote' = remote
          /\ Len(used_durable_object_namespaces') = Len(used_durable_object_namespaces)
          /\ \A i \in DOMAIN used_durable_object_namespaces :
               LET old == used_durable_object_namespaces[i]
                   new == used_durable_object_namespaces'[i]
               IN /\ new.namespace_name = old.namespace_name
                  /\ old.namespace_id # None => new.namespace_id = old.namespace_id
                  /\ (old.namespace_id = None /\ new.namespace_id # None) =>
                        /\ old.namespace_name # None
                        /\ old.namespace_name[1] \in DOMAIN existing_namespaces
                        /\ new.namespace_id =
                               Some(existing_namespaces[old.namespace_name[1]].id)
      ]_vars

\* C20 witness: hydrate returned Ok having resolved one binding by name and
\* kept the preset id of another
C20_Witness ==
    /\ pc = "upload"
    /\ \E i \in DOMAIN uses : \E j \in DOMAIN uses :
        /\ uses[i].namespace_id = Some(PresetId)
        /\ used_durable_object_namespaces[i].namespace_id = Some(PresetId)
        /\ uses[j].namespace_id = None
        /\ uses[j].namespace_name # None
        /\ used_durable_object_namespaces[j].namespace_id =
               Some(existing_namespaces[uses[j].namespace_name[1]].id)

====
